---- MODULE Spec2Model ----
(***************************************************************************)
(* The host shell of src/index.tsx (component App): the theme, the         *)
(* onboarding gate, the content load, the embedded iframe and the          *)
(* messages posted to it.                                                  *)
(*                                                                         *)
(* One step of the model is one uninterrupted piece of work of the         *)
(* browser's single thread: a click handler together with the re-render    *)
(* and the effects React flushes synchronously for it, the continuation of *)
(* an awaited promise (which only queues its state update), the render and *)
(* commit React schedules for a queued update, the effect that commit      *)
(* leaves owed, or one setTimeout callback.                                *)
(***************************************************************************)
EXTENDS Integers, Sequences, FiniteSets, TLC

VARIABLES
    themeMode,       \* useState<'dark' | 'light'>, line 26
    showDisclaimer,  \* useState(true), line 27
    activeModel,     \* useState('gemini3'), line 28
    gameHtml,        \* useState<string | null>(null), line 29: the committed value
    queued,          \* the setGameHtml update not yet rendered: <<>> or <<html>>
    owed,            \* the effect of lines 62-71 a commit scheduled and that has not
                     \* run yet: <<>> or <<the showDisclaimer and themeMode it closes over>>
    loads,           \* the invocations of load() (lines 39-49), in call order
    timers,          \* pending setTimeout callbacks (lines 65-69), in call order
    posted,          \* every postMessage made on the iframe's contentWindow
    toggles,         \* history: the calls of toggleTheme so far
    mountedToggles   \* history: those made while the iframe had a contentWindow

vars == <<themeMode, showDisclaimer, activeModel, gameHtml, queued, owed, loads, timers, posted,
          toggles, mountedToggles>>

counters == <<toggles, mountedToggles>>

----------------------------------------------------------------------------
(* Bounds of the exploration. *)

MaxToggles == 3

----------------------------------------------------------------------------
(* Values. *)

\* The null of `string | null`.
Null == "<null>"

Vias == {"pointer", "keyboard"}

\* line 40
Url(model) == IF model = "gemini3" THEN "./init/gemini3.html" ELSE "./init/gemini2p5.html"

\* The document served at a url.
Document(url) == IF url = "./init/gemini3.html" THEN "<html>gemini3</html>" ELSE "<html>gemini2p5</html>"

\* What res.text() can resolve to for a url: the document, or an empty body.
Bodies(url) == {Document(url), ""}

\* lines 57 and 68
SetTheme(mode) == [type |-> "SET_THEME", payload |-> mode]

\* Mutant of PauseGame: the message type is misspelt.
PauseGameTypo(paused) == [type |-> "PAUSE", payload |-> paused]

\* line 66
PauseGame(paused) == [type |-> "PAUSE_GAME", payload |-> paused]

\* Equality of two messages; the type is compared first because the two
\* kinds of payload (a string, a boolean) are not comparable.
MsgEq(a, b) == a.type = b.type /\ a.payload = b.payload

----------------------------------------------------------------------------
(* Rendering. *)

\* `gameHtml && <iframe ref={iframeRef} .../>`, lines 137-144: the iframe is
\* in the document, and iframeRef.current.contentWindow is set, exactly when
\* the committed gameHtml is truthy (neither null nor the empty string).
HasContentWindow(html) == html # Null /\ html # ""

headerZIndex == 10

modalZIndex == 20

\* The modal is rendered while showDisclaimer holds (line 147); it spans the
\* whole container (line 98) and stacks above the header (lines 81, 101), so
\* a pointer click on the header's button lands on the modal.
HeaderOccluded == showDisclaimer /\ modalZIndex > headerZIndex

\* Mutant of ToggleReachable: the button answers to the pointer alone.
ToggleReachablePointerOnly(via) == ~HeaderOccluded

\* The theme button (lines 131-133) is always rendered and never disabled:
\* it can be activated from the keyboard in every state, and with the
\* pointer when the modal does not cover it.
ToggleReachable(via) == via = "keyboard" \/ ~HeaderOccluded

\* The Start button is part of the modal, lines 147 and 167-174.
StartRendered == showDisclaimer

----------------------------------------------------------------------------
(* Helpers. *)

\* Mutant of NewMode: the toggle always selects "dark".
NewModeDark(mode) == "dark"

\* line 54
NewMode(mode) == IF mode = "dark" THEN "light" ELSE "dark"

\* Mutant of PostMessage: the guard on the ref is missing.
PostMessageUnguarded(log, html, msg) == Append(log, msg)

\* `iframeRef.current && iframeRef.current.contentWindow` then postMessage,
\* lines 56-58, and `iframeRef.current?.contentWindow?.postMessage`, lines
\* 66 and 68: the message is posted when there is a contentWindow, and
\* dropped otherwise.
PostMessage(log, html, msg) == IF HasContentWindow(html) THEN Append(log, msg) ELSE log

\* The dependency list of line 71: a commit whose state is (show, html,
\* theme) runs the effect of lines 62-71 when one of the three differs from
\* the previous commit; a setter given the value already held renders
\* nothing.
DepsChanged(show, html, theme) == <<show, html, theme>> # <<showDisclaimer, gameHtml, themeMode>>

\* The body of the effect, lines 63-70, run for the owed effect: the
\* timeout is set when the iframe has a contentWindow, and its callback
\* captures the showDisclaimer and themeMode of the commit that owed it.
Flushed ==
    IF owed # <<>> /\ HasContentWindow(gameHtml) THEN Append(timers, owed[1]) ELSE timers

\* Mutant of SyncEffect: the callback captures the state of the previous
\* commit.
SyncEffectStale(show, html, theme) ==
    IF ~DepsChanged(show, html, theme) THEN timers
    ELSE IF HasContentWindow(html)
         THEN Append(Flushed, [showDisclaimer |-> showDisclaimer, themeMode |-> themeMode])
         ELSE Flushed

\* Mutant of SyncEffect: showDisclaimer is missing from the dependencies.
SyncEffectNoGateDep(show, html, theme) ==
    IF <<html, theme>> = <<gameHtml, themeMode>> THEN timers
    ELSE IF HasContentWindow(html)
         THEN Append(Flushed, [showDisclaimer |-> show, themeMode |-> theme])
         ELSE Flushed

\* Mutant of SyncEffect: no dependency list, the effect runs after every
\* state setter.
SyncEffectAlways(show, html, theme) ==
    IF HasContentWindow(html)
    THEN Append(Flushed, [showDisclaimer |-> show, themeMode |-> theme])
    ELSE Flushed

\* The pending timeouts after a click handler whose setter leaves the state
\* (show, html, theme): React renders synchronously, running first the
\* effect still owed by an earlier commit, and runs the effect of lines
\* 62-71 for the new commit before the click's task ends; that effect sets
\* its timeout when the iframe has a contentWindow, capturing show and
\* theme.
SyncEffect(show, html, theme) ==
    IF ~DepsChanged(show, html, theme) THEN timers
    ELSE IF HasContentWindow(html)
         THEN Append(Flushed, [showDisclaimer |-> show, themeMode |-> theme])
         ELSE Flushed

\* The owed effect after such a click: none once React rendered.
OwedAfterClick(show, html, theme) == IF DepsChanged(show, html, theme) THEN <<>> ELSE owed

\* The effect a commit made in a scheduled task leaves owed: the effect of
\* lines 62-71 with the commit's showDisclaimer and themeMode, when a
\* dependency changed.
OwedAfterCommit(show, html, theme) ==
    IF DepsChanged(show, html, theme)
    THEN <<[showDisclaimer |-> show, themeMode |-> theme]>>
    ELSE <<>>

\* Mutant of TimerCallback: the theme is not sent again.
TimerCallbackPauseOnly(log, html, t) == PostMessage(log, html, PauseGame(t.showDisclaimer))

\* The callback of lines 65-69: PAUSE_GAME then SET_THEME, with the captured
\* values, to the contentWindow the ref holds when the callback runs.
TimerCallback(log, html, t) ==
    PostMessage(PostMessage(log, html, PauseGame(t.showDisclaimer)), html, SetTheme(t.themeMode))

----------------------------------------------------------------------------
(* Initial state: after the first render and its effects. The load effect  *)
(* has called load() for the initial model (line 49); the sync effect ran  *)
(* with iframeRef.current = null and set no timeout.                       *)

Init ==
    /\ themeMode = "light"
    /\ showDisclaimer = TRUE
    /\ activeModel = "gemini3"
    /\ gameHtml = Null
    /\ queued = <<>>
    /\ owed = <<>>
    /\ loads = <<[url |-> Url("gemini3"), pc |-> "fetch", body |-> Null]>>
    /\ timers = <<>>
    /\ posted = <<>>
    /\ toggles = 0
    /\ mountedToggles = 0

----------------------------------------------------------------------------
(* Actions. *)

\* Mutant of toggleTheme: the direct postMessage of lines 56-58 is missing.
toggleThemeNoPost(via) ==
    /\ toggles < MaxToggles
    /\ ToggleReachable(via)
    /\ themeMode' = NewMode(themeMode)
    /\ timers' = SyncEffect(showDisclaimer, gameHtml, NewMode(themeMode))
    /\ owed' = OwedAfterClick(showDisclaimer, gameHtml, NewMode(themeMode))
    /\ toggles' = toggles + 1
    /\ mountedToggles' = IF HasContentWindow(gameHtml) THEN mountedToggles + 1 ELSE mountedToggles
    /\ UNCHANGED <<showDisclaimer, activeModel, gameHtml, queued, loads, posted>>

\* lines 53-59, with the re-render and the effect of lines 62-71.
toggleTheme(via) ==
    /\ toggles < MaxToggles
    /\ ToggleReachable(via)
    /\ themeMode' = NewMode(themeMode)
    /\ posted' = PostMessage(posted, gameHtml, SetTheme(NewMode(themeMode)))
    /\ timers' = SyncEffect(showDisclaimer, gameHtml, NewMode(themeMode))
    /\ owed' = OwedAfterClick(showDisclaimer, gameHtml, NewMode(themeMode))
    /\ toggles' = toggles + 1
    /\ mountedToggles' = IF HasContentWindow(gameHtml) THEN mountedToggles + 1 ELSE mountedToggles
    /\ UNCHANGED <<showDisclaimer, activeModel, gameHtml, queued, loads>>

\* The Start button's onClick, line 169: setShowDisclaimer(false), with the
\* re-render and the effect that follow when the state changed.
StartClick ==
    /\ showDisclaimer' = FALSE
    /\ timers' = SyncEffect(FALSE, gameHtml, themeMode)
    /\ owed' = OwedAfterClick(FALSE, gameHtml, themeMode)
    /\ UNCHANGED <<themeMode, activeModel, gameHtml, queued, loads, posted, counters>>

\* A click on the Start button, which exists while the modal is rendered.
confirm ==
    /\ StartRendered
    /\ StartClick

\* `await fetch(url)` resolves, line 42.
fetchResolve(i) ==
    /\ loads[i].pc = "fetch"
    /\ loads' = [loads EXCEPT ![i].pc = "text"]
    /\ UNCHANGED <<themeMode, showDisclaimer, activeModel, gameHtml, queued, owed, timers, posted, counters>>

\* setGameHtml(html), line 44, called outside a React event handler: the
\* update is queued and rendered in a later task; a value queued by an
\* earlier call and not yet rendered is superseded. Setting the committed
\* value with nothing queued schedules no render.
SetGameHtml(html) == IF queued = <<>> /\ html = gameHtml THEN <<>> ELSE <<html>>

\* Mutant of textResolve: a new payload shows the modal again.
textResolveShowsModal(i, body) ==
    /\ loads[i].pc = "text"
    /\ loads' = [loads EXCEPT ![i].pc = "done", ![i].body = body]
    /\ queued' = SetGameHtml(body)
    /\ showDisclaimer' = TRUE
    /\ timers' = SyncEffect(TRUE, gameHtml, themeMode)
    /\ owed' = OwedAfterClick(TRUE, gameHtml, themeMode)
    /\ UNCHANGED <<themeMode, activeModel, gameHtml, posted, counters>>

\* `await res.text()` resolves with a body and the continuation calls
\* setGameHtml(html), lines 43-44.
textResolve(i, body) ==
    /\ loads[i].pc = "text"
    /\ loads' = [loads EXCEPT ![i].pc = "done", ![i].body = body]
    /\ queued' = SetGameHtml(body)
    /\ UNCHANGED <<themeMode, showDisclaimer, activeModel, gameHtml, owed, timers, posted, counters>>

\* The render React scheduled for the queued setGameHtml: React first runs
\* an effect still owed by the previous commit, then the commit makes the
\* queued value the gameHtml of line 29 (mounting, keeping or removing the
\* iframe of lines 137-144) and leaves the effect of lines 62-71 owed to a
\* later task.
render ==
    /\ queued # <<>>
    /\ gameHtml' = queued[1]
    /\ queued' = <<>>
    /\ timers' = Flushed
    /\ owed' = OwedAfterCommit(showDisclaimer, queued[1], themeMode)
    /\ UNCHANGED <<themeMode, showDisclaimer, activeModel, loads, posted, counters>>

\* The task in which React runs the owed effect of lines 62-71.
runEffect ==
    /\ owed # <<>>
    /\ timers' = Flushed
    /\ owed' = <<>>
    /\ UNCHANGED <<themeMode, showDisclaimer, activeModel, gameHtml, queued, loads, posted, counters>>

\* Mutant of CatchBlock: the failure puts an error page in the payload.
CatchBlockErrorPage(html) == "<html>error</html>"

\* The catch block, lines 45-47: it logs and sets no state, so gameHtml
\* keeps the value it has.
CatchBlock(html) == html

\* fetch(url) or res.text() rejects, lines 42-43, and the catch block runs.
loadFail(i) ==
    /\ loads[i].pc \in {"fetch", "text"}
    /\ loads' = [loads EXCEPT ![i].pc = "failed"]
    /\ gameHtml' = CatchBlock(gameHtml)
    /\ timers' = SyncEffect(showDisclaimer, CatchBlock(gameHtml), themeMode)
    /\ UNCHANGED <<themeMode, showDisclaimer, activeModel, queued, owed, posted, counters>>

\* Mutant of timerFire: the newest pending timeout fires first.
timerFireNewest ==
    /\ timers # <<>>
    /\ posted' = TimerCallback(posted, gameHtml, timers[Len(timers)])
    /\ timers' = SubSeq(timers, 1, Len(timers) - 1)
    /\ UNCHANGED <<themeMode, showDisclaimer, activeModel, gameHtml, queued, owed, loads, counters>>

\* The oldest pending timeout fires (all have the same delay, line 69).
timerFire ==
    /\ timers # <<>>
    /\ posted' = TimerCallback(posted, gameHtml, Head(timers))
    /\ timers' = Tail(timers)
    /\ UNCHANGED <<themeMode, showDisclaimer, activeModel, gameHtml, queued, owed, loads, counters>>

Next ==
    \/ \E via \in Vias : toggleTheme(via)
    \/ confirm
    \/ \E i \in 1..Len(loads) : fetchResolve(i)
    \/ \E i \in 1..Len(loads) : \E body \in Bodies(loads[i].url) : textResolve(i, body)
    \/ render
    \/ runEffect
    \/ \E i \in 1..Len(loads) : loadFail(i)
    \/ timerFire

\* The shell as rendered: its two controls, the load and the timers.
\* setActiveModel (line 28) has no caller, so activeModel keeps its initial
\* value and load() runs once.
Spec == Init /\ [][Next]_vars

----------------------------------------------------------------------------
(* Observations on the log of posted messages. *)

\* The positions of the SET_THEME messages in a log.
SetThemeAt(log) == {i \in 1..Len(log) : log[i].type = "SET_THEME"}

\* The payload of the last SET_THEME of a log that holds one.
LastSetTheme(log) ==
    log[CHOOSE i \in SetThemeAt(log) : \A j \in SetThemeAt(log) : j <= i].payload

\* The positions of the PAUSE_GAME messages in a log.
PauseGameAt(log) == {i \in 1..Len(log) : log[i].type = "PAUSE_GAME"}

\* The payload of the last PAUSE_GAME of a log that holds one.
LastPauseGame(log) ==
    log[CHOOSE i \in PauseGameAt(log) : \A j \in PauseGameAt(log) : j <= i].payload

\* new is old followed by the messages msgs.
IsAppended(new, old, msgs) ==
    /\ Len(new) = Len(old) + Len(msgs)
    /\ \A i \in 1..Len(old) : MsgEq(new[i], old[i])
    /\ \A j \in 1..Len(msgs) : MsgEq(new[Len(old) + j], msgs[j])

\* The value last given to setGameHtml, rendered or not; the initial null
\* when it was never called.
LastSetHtml == IF queued # <<>> THEN queued[1] ELSE gameHtml

\* The iframe has a contentWindow, no effect is owed and no timeout is
\* pending.
Settled == HasContentWindow(gameHtml) /\ owed = <<>> /\ timers = <<>>

\* The theme after n toggles from the initial "light".
ThemeAfter(n) == IF n % 2 = 0 THEN "light" ELSE "dark"

----------------------------------------------------------------------------
(* Claims. *)

\* C1: whenever a surface is mounted and every pending settle timer has
\* fired, a SET_THEME has been posted and the last one posted carries the
\* shell's current themeMode, whatever toggles, confirm, load steps and
\* timer firings came before.
C1_ThemeSettles ==
    Settled => SetThemeAt(posted) # {} /\ LastSetTheme(posted) = themeMode

\* C1 witness: settled after toggles made before and after the mount and
\* after the confirm.
C1_Witness ==
    /\ Settled
    /\ toggles = 3 /\ mountedToggles = 2
    /\ ~showDisclaimer
    /\ Len(posted) >= 8

\* C3 as stated: a confirm made while a surface is mounted posts
\* PAUSE_GAME(false) and SET_THEME(current theme) in the confirm step.
C3_ConfirmPostsImmediately ==
    [][(showDisclaimer /\ ~showDisclaimer' /\ HasContentWindow(gameHtml))
          => IsAppended(posted', posted, <<PauseGame(FALSE), SetTheme(themeMode)>>)]_vars

\* C3 amended: a confirm made while a surface is mounted posts nothing in
\* the confirm step and sets one timeout, behind those already pending,
\* that captures gate = false and the unchanged theme; a timeout that fires
\* while a surface is mounted posts PAUSE_GAME then SET_THEME with the
\* values it captured.
C3_ConfirmPostsAfterSettle ==
    [][/\ (showDisclaimer /\ ~showDisclaimer' /\ HasContentWindow(gameHtml))
          => /\ Len(posted') = Len(posted)
             /\ timers' = Append(Flushed, [showDisclaimer |-> FALSE, themeMode |-> themeMode])
             /\ themeMode' = themeMode
       /\ (Len(timers') < Len(timers) /\ HasContentWindow(gameHtml))
          => /\ timers' = Tail(timers)
             /\ IsAppended(posted', posted, <<PauseGame(Head(timers).showDisclaimer),
                                              SetTheme(Head(timers).themeMode)>>)]_vars

\* C3 witness: the timeout set by the confirm has fired on a mounted
\* surface: PAUSE_GAME(false) is the second to last message posted, the
\* SET_THEME after it carries the current theme.
C3_Witness ==
    /\ ~showDisclaimer
    /\ Settled
    /\ Len(posted) >= 4
    /\ posted[Len(posted) - 1].type = "PAUSE_GAME"
    /\ posted[Len(posted) - 1].payload = FALSE
    /\ toggles >= 1

\* C4: the theme toggle can be taken in every reachable state (up to the
\* bound on the number of toggles explored), and each toggle taken flips
\* themeMode.
C4_ToggleAlwaysAvailable ==
    /\ [](toggles < MaxToggles => ENABLED (\E via \in Vias : toggleTheme(via)))
    /\ [][toggles' # toggles
            => /\ (themeMode = "light" => themeMode' = "dark")
               /\ (themeMode = "dark" => themeMode' = "light")]_vars

\* C4 witness: the theme was toggled while the gate was Shown and after the
\* load had failed.
C4_Witness ==
    /\ showDisclaimer
    /\ loads[1].pc = "failed"
    /\ gameHtml = Null
    /\ toggles = 1 /\ themeMode = "dark"

\* C5: a step in which the load fails leaves gameHtml, the queued update,
\* the owed effect, the pending timeouts, the posted messages, the theme and
\* the gate as they were; and once the load has failed the payload is
\* absent, as it was when load() was called, no update is queued, no effect
\* is owed, no timeout is pending and nothing has been posted.
C5_LoadFailPreserves ==
    /\ [][(\E i \in 1..Len(loads) : loads[i].pc # "failed" /\ loads'[i].pc = "failed")
             => /\ gameHtml' = gameHtml
                /\ queued' = queued
                /\ timers' = timers
                /\ owed' = owed
                /\ Len(posted') = Len(posted)
                /\ themeMode' = themeMode
                /\ showDisclaimer' = showDisclaimer]_vars
    /\ []((\E i \in 1..Len(loads) : loads[i].pc = "failed")
             => /\ gameHtml = Null
                /\ queued = <<>> /\ owed = <<>> /\ timers = <<>>
                /\ Len(posted) = 0)

\* C5 witness: the load failed after the response had arrived (res.text()
\* rejected), the user has toggled and confirmed since, and the payload is
\* still absent.
C5_Witness ==
    /\ loads[1].pc = "failed"
    /\ gameHtml = Null
    /\ toggles = 3 /\ ~showDisclaimer
    /\ timers = <<>> /\ Len(posted) = 0

\* C6: the gate is Shown initially; a step that changes it is a confirm
\* step; once Dismissed it is Dismissed after every step.
C6_GateMonotone ==
    /\ showDisclaimer = TRUE
    /\ [][/\ (showDisclaimer' # showDisclaimer => confirm)
          /\ (~showDisclaimer => ~showDisclaimer')]_vars

\* C6 witness: the gate is Dismissed and toggles, the load and timeouts
\* have run since.
C6_Witness ==
    /\ ~showDisclaimer
    /\ HasContentWindow(gameHtml)
    /\ mountedToggles >= 1
    /\ Len(posted) >= 5

\* C7: while the gate is Dismissed the confirm action is not enabled, and
\* the Start handler run in such a state changes nothing: the gate stays
\* Dismissed, theme, payload and posted messages are as they were and no
\* timeout is set.
C7_ConfirmOnlyWhileShown ==
    /\ ENABLED confirm => showDisclaimer
    /\ ~showDisclaimer => /\ ENABLED StartClick
                          /\ ~ENABLED (StartClick /\ vars' # vars)

\* C7 witness: the gate is Dismissed on a mounted surface with a timeout
\* still pending.
C7_Witness ==
    /\ ~showDisclaimer
    /\ HasContentWindow(gameHtml)
    /\ timers # <<>>
    /\ \E i \in 1..Len(posted) : posted[i].type = "PAUSE_GAME" /\ posted[i].payload = TRUE

\* C8: as long as the user has done nothing (no toggle, no confirm),
\* nothing is posted until the payload is mounted and its
\* timeout has fired, and from then on the posted messages are exactly one
\* SET_THEME("light") and one PAUSE_GAME(true).
C8_FreshLoad ==
    (toggles = 0 /\ showDisclaimer)
        => IF Settled
           THEN /\ Len(posted) = 2
                /\ \E i, j \in 1..2 : /\ i # j
                                      /\ MsgEq(posted[i], SetTheme("light"))
                                      /\ MsgEq(posted[j], PauseGame(TRUE))
           ELSE Len(posted) = 0

\* C8 witness: the first broadcast has been made and the user has done
\* nothing.
C8_Witness ==
    /\ toggles = 0 /\ showDisclaimer
    /\ Settled
    /\ Len(posted) = 2

\* C9: a toggle made while a surface is mounted posts, in the same step,
\* one SET_THEME carrying the theme it sets, and sets one timeout capturing
\* that theme; after every step the SET_THEME messages posted are at least
\* as many as the toggles made while mounted.
C9_ToggleBroadcasts ==
    [][/\ (themeMode' # themeMode /\ HasContentWindow(gameHtml))
          => /\ IsAppended(posted', posted, <<SetTheme(themeMode')>>)
             /\ timers' = Append(Flushed, [showDisclaimer |-> showDisclaimer,
                                           themeMode |-> themeMode'])
       /\ Cardinality(SetThemeAt(posted')) >= mountedToggles']_vars

\* C9 witness: two toggles made on a mounted surface, their timeouts still
\* pending.
C9_Witness ==
    /\ mountedToggles = 2
    /\ Len(timers) >= 2
    /\ Cardinality(SetThemeAt(posted)) >= 2

\* C10: the theme is always dark or light, and after n toggles it is the
\* initial theme when n is even and the other one when n is odd, so every
\* toggle flips it and two toggles restore it; once two or more toggles
\* were made on a mounted surface and the timeouts have drained, the last
\* SET_THEME posted carries the theme held two toggles earlier.
C10_ToggleInvolution ==
    /\ themeMode \in {"dark", "light"}
    /\ themeMode = ThemeAfter(toggles)
    /\ (mountedToggles >= 2 /\ Settled)
          => /\ SetThemeAt(posted) # {}
             /\ LastSetTheme(posted) = ThemeAfter(toggles - 2)

\* C10 witness: two toggles on a mounted surface, timeouts drained, theme
\* back to the initial one.
C10_Witness ==
    /\ toggles = 2 /\ mountedToggles = 2
    /\ Settled
    /\ themeMode = "light"

\* C11: a step taken while the iframe has no contentWindow (a toggle, a
\* confirm, a timeout firing, a load step) posts nothing, and as long as no
\* load has resolved nothing has been posted at all; a pending timeout can
\* fire whether or not a contentWindow exists.
C11_SendsDroppedWhenUnmounted ==
    /\ [][~HasContentWindow(gameHtml) => Len(posted') = Len(posted)]_vars
    /\ []((\A i \in 1..Len(loads) : loads[i].pc # "done") => Len(posted) = 0)
    /\ [](timers # <<>> => ENABLED timerFire)

\* C11 witness: the load failed, the user toggled twice and confirmed with
\* no surface mounted, and nothing was posted.
C11_Witness ==
    /\ loads[1].pc = "failed"
    /\ ~HasContentWindow(gameHtml)
    /\ toggles = 2 /\ mountedToggles = 0
    /\ ~showDisclaimer
    /\ Len(posted) = 0

\* C12: every message posted is a SET_THEME whose payload is "dark" or
\* "light", or a PAUSE_GAME whose payload is a boolean.
C12_WireShape ==
    \A i \in 1..Len(posted) :
        IF posted[i].type = "SET_THEME" THEN posted[i].payload \in {"dark", "light"}
        ELSE posted[i].type = "PAUSE_GAME" /\ posted[i].payload \in BOOLEAN

\* C12 witness: all four message values have been posted.
C12_Witness ==
    /\ \E i \in 1..Len(posted) : MsgEq(posted[i], SetTheme("dark"))
    /\ \E i \in 1..Len(posted) : MsgEq(posted[i], SetTheme("light"))
    /\ \E i \in 1..Len(posted) : MsgEq(posted[i], PauseGame(TRUE))
    /\ \E i \in 1..Len(posted) : MsgEq(posted[i], PauseGame(FALSE))

\* C13: whenever a surface is mounted and every pending timeout has fired,
\* a PAUSE_GAME has been posted and the last one posted carries the current
\* gate (true iff Shown), wherever the confirm fell relative to the load.
C13_RunStateSettles ==
    Settled => PauseGameAt(posted) # {} /\ LastPauseGame(posted) = showDisclaimer

\* C13 witness: the confirm came before the payload resolved, so the very
\* first message posted is PAUSE_GAME(false).
C13_Witness ==
    /\ Settled
    /\ ~showDisclaimer
    /\ MsgEq(posted[1], PauseGame(FALSE))
    /\ toggles >= 1

\* C14: no step whose starting state has the gate Dismissed posts a
\* PAUSE_GAME with payload true.
C14_NoPauseAfterDismiss ==
    [][~showDisclaimer
          => \A i \in (Len(posted) + 1)..Len(posted') :
                ~(posted'[i].type = "PAUSE_GAME" /\ posted'[i].payload = TRUE)]_vars

\* C15: every SET_THEME posted in a step carries the themeMode that step
\* leaves.
C15_SetThemeIsCurrent ==
    [][\A i \in (Len(posted) + 1)..Len(posted') :
          posted'[i].type = "SET_THEME" => posted'[i].payload = themeMode']_vars

\* C16: a step that changes the gate, the theme or the payload runs the
\* effect once or leaves it owed once, and the effect, when it runs with a
\* surface mounted, sets exactly one timeout, behind those pending, that
\* captures the gate and theme that step left; no other step sets a
\* timeout or owes an effect; a pending timeout is removed only by firing,
\* the oldest first, and firing posts PAUSE_GAME then SET_THEME with the
\* captured values when a surface is mounted at that time, and nothing
\* otherwise.
C16_OneTimerPerChange ==
    [][LET changed == <<showDisclaimer, gameHtml, themeMode>>'
                        # <<showDisclaimer, gameHtml, themeMode>>
           closure == [showDisclaimer |-> showDisclaimer', themeMode |-> themeMode']
       IN  IF Len(timers') < Len(timers)
           THEN /\ timers' = Tail(timers)
                /\ ~changed /\ owed' = owed
                /\ IsAppended(posted', posted,
                              IF HasContentWindow(gameHtml)
                              THEN <<PauseGame(Head(timers).showDisclaimer),
                                     SetTheme(Head(timers).themeMode)>>
                              ELSE <<>>)
           ELSE IF changed
           THEN \/ /\ owed' = <<closure>>
                   /\ timers' = Flushed
                \/ /\ owed' = <<>>
                   /\ timers' = IF HasContentWindow(gameHtml')
                                 THEN Append(Flushed, closure) ELSE Flushed
           ELSE \/ /\ owed' = owed
                   /\ timers' = timers
                \/ /\ owed # <<>> /\ owed' = <<>>
                   /\ owed[1] = [showDisclaimer |-> showDisclaimer, themeMode |-> themeMode]
                   /\ timers' = Flushed]_vars

\* C16 witness: the mount, one toggle and the confirm each set a timeout,
\* and all three have fired: two messages each, after the toggle's direct
\* one.
C16_Witness ==
    /\ HasContentWindow(gameHtml)
    /\ owed = <<>> /\ timers = <<>>
    /\ toggles = 1 /\ mountedToggles = 1 /\ ~showDisclaimer
    /\ Len(posted) = 7

\* C17: a toggle step changes the theme and leaves the gate, the active
\* model and the payload last set (rendered or not) unchanged; a step that
\* changes the gate leaves the theme, the active model and the payload last
\* set unchanged; a load step, the render of a loaded payload and a timeout
\* firing leave the theme and the gate unchanged.
C17_FrameConditions ==
    [][/\ toggles' # toggles
          => /\ themeMode' # themeMode
             /\ UNCHANGED <<showDisclaimer, activeModel>>
             /\ LastSetHtml' = LastSetHtml
       /\ showDisclaimer' # showDisclaimer
          => /\ UNCHANGED <<themeMode, activeModel>>
             /\ LastSetHtml' = LastSetHtml
       /\ (loads' # loads \/ queued' # queued \/ gameHtml' # gameHtml
              \/ Len(timers') < Len(timers))
          => UNCHANGED <<themeMode, showDisclaimer>>]_vars

\* C17 witness: a toggle, the confirm, the load, the render of its payload
\* and timeout firings have all been taken.
C17_Witness ==
    /\ toggles >= 1 /\ ~showDisclaimer
    /\ loads[1].pc = "done"
    /\ HasContentWindow(gameHtml)
    /\ owed = <<>> /\ timers = <<>> /\ Len(posted) >= 5

====
